---- MODULE Spec2Model ----
(***************************************************************************)
(* A model of todo-tree's scan-result aggregation and directory scan       *)
(* (src/src/scanner.rs) and of its tag parser (src/src/parser.rs).         *)
(*                                                                         *)
(* Strings are sequences of one-character strings, so that case folding,   *)
(* byte offsets and pattern matching are computed and not assumed.  Maps   *)
(* (HashMap) are functions whose domain is the set of keys present.        *)
(***************************************************************************)
EXTENDS Integers, Sequences, FiniteSets, TLC

VARIABLES
    result,      \* the ScanResult the caller accumulates into
    calls,       \* number of add_file calls made on `result` (history)
    last,        \* the last operation and its arguments (history)
    filtered,    \* the value returned by the last filter_by_tag on `result`
    refiltered,  \* the value returned by filter_by_tag on `filtered`
    parser,      \* the TodoParser under test
    item,        \* the value returned by the last parse_line
    items,       \* the value returned by the last parse_content
    walked,      \* the entries the directory walker has yielded to scan (history)
    returned,    \* the value returned by Scanner::scan, None while it runs
    priority,    \* the value returned by the last Priority::from_tag
    config,      \* the Config that merge_with_cli works on
    fs,          \* the configuration files on disk and the user's config dir
    loaded       \* the value returned by Config::load, None before the call

vars == <<result, calls, last, filtered, refiltered, parser, item, items,
          walked, returned, priority, config, fs, loaded>>

scanVars == <<result, calls, filtered, refiltered>>
parserVars == <<parser, item, items>>
walkVars == <<walked, returned>>
configVars == <<priority, config, fs, loaded>>

\* Option::None
None == [none |-> TRUE]
\* Option::Some
Some(x) == [some |-> x]

----------------------------------------------------------------------------
(* Characters and strings                                                  *)

UpperLetters == {"A", "B", "C", "D", "E", "F", "G", "H", "I", "J", "K", "L", "M",
                 "N", "O", "P", "Q", "R", "S", "T", "U", "V", "W", "X", "Y", "Z"}
LowerLetters == {"a", "b", "c", "d", "e", "f", "g", "h", "i", "j", "k", "l", "m",
                 "n", "o", "p", "q", "r", "s", "t", "u", "v", "w", "x", "y", "z"}
Digits == {"0", "1", "2", "3", "4", "5", "6", "7", "8", "9"}

UpperOf ==
    [c \in LowerLetters |->
        CASE c = "a" -> "A" [] c = "b" -> "B" [] c = "c" -> "C" [] c = "d" -> "D"
          [] c = "e" -> "E" [] c = "f" -> "F" [] c = "g" -> "G" [] c = "h" -> "H"
          [] c = "i" -> "I" [] c = "j" -> "J" [] c = "k" -> "K" [] c = "l" -> "L"
          [] c = "m" -> "M" [] c = "n" -> "N" [] c = "o" -> "O" [] c = "p" -> "P"
          [] c = "q" -> "Q" [] c = "r" -> "R" [] c = "s" -> "S" [] c = "t" -> "T"
          [] c = "u" -> "U" [] c = "v" -> "V" [] c = "w" -> "W" [] c = "x" -> "X"
          [] c = "y" -> "Y" [] c = "z" -> "Z"]

\* u8::to_ascii_uppercase on one character: only a-z change
to_ascii_uppercase(c) == IF c \in LowerLetters THEN UpperOf[c] ELSE c

\* str::eq_ignore_ascii_case
eq_ignore_ascii_case(s, t) ==
    /\ Len(s) = Len(t)
    /\ \A i \in 1..Len(s) : to_ascii_uppercase(s[i]) = to_ascii_uppercase(t[i])

----------------------------------------------------------------------------
(* ScanResult                                                              *)

EmptyMap == [k \in {} |-> 0]

\* HashMap::insert: the value of an existing key is replaced
MapInsert(m, k, v) == [x \in (DOMAIN m) \cup {k} |-> IF x = k THEN v ELSE m[x]]

\* ScanResult::new
ScanResult_new(root) ==
    [files |-> EmptyMap,
     total_count |-> 0,
     files_scanned |-> 0,
     files_with_todos |-> 0,
     tag_counts |-> EmptyMap,
     root |-> root]

RECURSIVE CountTags(_, _)
\* the loop `for item in &items { *tag_counts.entry(tag).or_insert(0) += 1 }`
CountTags(counts, its) ==
    IF its = <<>> THEN counts
    ELSE LET tag == Head(its).tag
             old == IF tag \in DOMAIN counts THEN counts[tag] ELSE 0
         IN  CountTags(MapInsert(counts, tag, old + 1), Tail(its))

\* add_file counting one tag per file instead of one per item
add_file_TagOncePerFile(self, path, its) ==
    LET scanned == [self EXCEPT !.files_scanned = @ + 1]
    IN  IF its # <<>>
        THEN [scanned EXCEPT
                !.files_with_todos = @ + 1,
                !.total_count = @ + Len(its),
                !.tag_counts = CountTags(@, <<Head(its)>>),
                !.files = MapInsert(@, path, its)]
        ELSE scanned

\* add_file counting a file as scanned only when it has matches
add_file_ScannedOnlyWithTodos(self, path, its) ==
    IF its # <<>>
    THEN [self EXCEPT
            !.files_scanned = @ + 1,
            !.files_with_todos = @ + 1,
            !.total_count = @ + Len(its),
            !.tag_counts = CountTags(@, its),
            !.files = MapInsert(@, path, its)]
    ELSE self

\* add_file inserting the path whether or not the list is empty
add_file_InsertAlways(self, path, its) ==
    LET scanned == [self EXCEPT !.files_scanned = @ + 1, !.files = MapInsert(@, path, its)]
    IN  IF its # <<>>
        THEN [scanned EXCEPT
                !.files_with_todos = @ + 1,
                !.total_count = @ + Len(its),
                !.tag_counts = CountTags(@, its)]
        ELSE scanned

\* ScanResult::add_file
add_file(self, path, its) ==
    LET scanned == [self EXCEPT !.files_scanned = @ + 1]
    IN  IF its # <<>>
        THEN [scanned EXCEPT
                !.files_with_todos = @ + 1,
                !.total_count = @ + Len(its),
                !.tag_counts = CountTags(@, its),
                !.files = MapInsert(@, path, its)]
        ELSE scanned

\* the filter comparing tags exactly (== instead of eq_ignore_ascii_case)
FilterItems_CaseSensitive(its, tag) ==
    SelectSeq(its, LAMBDA it : it.tag = tag)

\* the iterator chain `items.iter().filter(eq_ignore_ascii_case).cloned().collect()`
FilterItems(its, tag) ==
    SelectSeq(its, LAMBDA it : eq_ignore_ascii_case(it.tag, tag))

RECURSIVE FilterLoop(_, _, _, _)
\* the loop `for (path, items) in &self.files`, visiting the keys in `order`
FilterLoop(res, self, tag, order) ==
    IF order = <<>> THEN res
    ELSE LET path == Head(order)
             kept == FilterItems(self.files[path], tag)
         IN  FilterLoop(IF kept # <<>> THEN add_file(res, path, kept) ELSE res,
                        self, tag, Tail(order))

\* filter_by_tag starting from the parent's counters instead of a new result
filter_by_tag_InheritCounts(self, tag, order) ==
    FilterLoop([self EXCEPT !.files = EmptyMap, !.tag_counts = EmptyMap],
               self, tag, order)

\* ScanResult::filter_by_tag; `order` is the HashMap's iteration order,
\* which the language leaves unspecified
filter_by_tag(self, tag, order) ==
    FilterLoop([ScanResult_new(self.root) EXCEPT !.files_scanned = self.files_scanned],
               self, tag, order)

\* every sequence that enumerates the set S once
Orders(S) ==
    {o \in [1..Cardinality(S) -> S] : \A i, j \in 1..Cardinality(S) : o[i] = o[j] => i = j}

----------------------------------------------------------------------------
(* The inputs of the ScanResult operations                                 *)

MaxCalls == 2   \* add_file calls per behaviour
MaxItems == 2   \* length of a match list passed to add_file

Root == "/repo"
Paths == {"/repo/a.rs", "/repo/b.rs"}

TODO == <<"T", "O", "D", "O">>
todo == <<"t", "o", "d", "o">>
Todo == <<"T", "o", "d", "o">>
FIXME == <<"F", "I", "X", "M", "E">>
NOTE == <<"N", "O", "T", "E">>

\* a TodoItem as parse_line builds it for the line "// <tag>: x"
PoolItem(tag, prio) ==
    [tag |-> tag,
     message |-> <<"x">>,
     line |-> 1,
     column |-> 4,
     line_content |-> <<"/", "/", " ">> \o tag \o <<":", " ", "x">>,
     author |-> None,
     priority |-> prio]

ItemPool == {PoolItem(TODO, "Medium"), PoolItem(todo, "Medium"), PoolItem(FIXME, "Critical")}

MatchLists == UNION {[1..n -> ItemPool] : n \in 0..MaxItems}

FilterTags == {TODO, Todo, FIXME, NOTE}

----------------------------------------------------------------------------
(* The caller of ScanResult: add_file and filter_by_tag in any order       *)

NoOp == [op |-> "new"]

Init ==
    /\ result = ScanResult_new(Root)
    /\ calls = 0
    /\ last = NoOp
    /\ filtered = None
    /\ refiltered = None
    /\ parser = None
    /\ item = None
    /\ items = <<>>
    /\ walked = <<>>
    /\ returned = None
    /\ priority = None
    /\ config = None
    /\ fs = None
    /\ loaded = None

\* result.add_file(path, its).  The result is accumulated first and queried
\* afterwards, one query per behaviour: filter_by_tag takes &self and leaves
\* `result` as it is, so a call made after a filter reaches no ScanResult and
\* no filtered copy that is not reached without that filter.
AddFile ==
    /\ calls < MaxCalls
    /\ last.op \in {"new", "add_file"}
    /\ \E path \in Paths, its \in MatchLists :
          /\ result' = add_file(result, path, its)
          /\ last' = [op |-> "add_file", path |-> path, items |-> its]
    /\ calls' = calls + 1
    /\ filtered' = None
    /\ refiltered' = None
    /\ UNCHANGED parserVars
    /\ UNCHANGED walkVars
    /\ UNCHANGED configVars

\* filtered = result.filter_by_tag(tag)
FilterByTag ==
    /\ last.op \in {"new", "add_file"}
    /\ \E tag \in FilterTags, order \in Orders(DOMAIN result.files) :
          /\ filtered' = filter_by_tag(result, tag, order)
          /\ last' = [op |-> "filter_by_tag", tag |-> tag]
    /\ refiltered' = None
    /\ UNCHANGED <<result, calls>>
    /\ UNCHANGED parserVars
    /\ UNCHANGED walkVars
    /\ UNCHANGED configVars

\* refiltered = filtered.filter_by_tag(tag), with the tag of the first filter
FilterAgain ==
    /\ last.op = "filter_by_tag"
    /\ \E order \in Orders(DOMAIN filtered.files) :
          refiltered' = filter_by_tag(filtered, last.tag, order)
    /\ last' = [op |-> "filter_again", tag |-> last.tag]
    /\ UNCHANGED <<result, calls, filtered>>
    /\ UNCHANGED parserVars
    /\ UNCHANGED walkVars
    /\ UNCHANGED configVars

Next == AddFile \/ FilterByTag \/ FilterAgain

Spec == Init /\ [][Next]_vars

----------------------------------------------------------------------------
(* The ScanResult invariants of the data model                             *)

RECURSIVE SumOver(_, _)
\* the sum of f[k] over the keys k in S
SumOver(S, f) ==
    IF S = {} THEN 0
    ELSE LET k == CHOOSE x \in S : TRUE IN f[k] + SumOver(S \ {k}, f)

SumOfLengths(files) == SumOver(DOMAIN files, [p \in DOMAIN files |-> Len(files[p])])
SumOfCounts(counts) == SumOver(DOMAIN counts, counts)

TotalIsSumOfLengths(r) == r.total_count = SumOfLengths(r.files)
FilesWithTodosIsFileCount(r) == r.files_with_todos = Cardinality(DOMAIN r.files)
NoEmptyEntry(r) == \A p \in DOMAIN r.files : r.files[p] # <<>>
TagCountsSumToTotal(r) == SumOfCounts(r.tag_counts) = r.total_count
ScannedCoversWithTodos(r) == r.files_scanned >= r.files_with_todos

FourInvariants(r) ==
    /\ TotalIsSumOfLengths(r)
    /\ FilesWithTodosIsFileCount(r)
    /\ TagCountsSumToTotal(r)
    /\ ScannedCoversWithTodos(r)

\* the indices of the items of `its` whose tag is `tag` up to ASCII case
MatchingIndices(its, tag) == {i \in 1..Len(its) : eq_ignore_ascii_case(its[i].tag, tag)}

\* f is the subsequence of `its` at the indices in idx, in increasing order
IsSubsequenceAt(f, its, idx) ==
    /\ Len(f) = Cardinality(idx)
    /\ \A i \in idx : f[1 + Cardinality({j \in idx : j < i})] = its[i]

----------------------------------------------------------------------------
(* Claims about ScanResult                                                 *)

\* C1: after any sequence of add_file calls on a new ScanResult, the same path
\* twice included, total_count is the sum of the lengths of the stored lists.
\* The code adds the length of a list that replaces an earlier one without
\* taking the replaced list's length off.
C1_TotalIsSumOfLengths == TotalIsSumOfLengths(result)

\* C2: after any sequence of add_file calls on a new ScanResult, the same path
\* twice included, files_with_todos is the number of entries of files and no
\* entry is an empty list.  The code counts a path again when it is re-added.
C2_FilesWithTodosIsFileCount == FilesWithTodosIsFileCount(result) /\ NoEmptyEntry(result)

\* C3: after any sequence of add_file calls on a new ScanResult the values of
\* tag_counts sum to total_count.
C3_TagCountsSumToTotal == TagCountsSumToTotal(result)

\* two calls for one path have been made, two tags are counted, and the totals
\* already exceed what the files map stores
C3_Witness ==
    /\ calls >= 2
    /\ Cardinality(DOMAIN result.tag_counts) >= 2
    /\ result.total_count > SumOfLengths(result.files)

\* C4: after any sequence of add_file calls on a new ScanResult
\* files_scanned >= files_with_todos, and files_scanned is the number of calls.
C4_FilesScannedCountsCalls ==
    /\ ScannedCoversWithTodos(result)
    /\ result.files_scanned = calls

\* a call with an empty list and a call with matches have both been made
C4_Witness ==
    /\ calls >= 2
    /\ result.files_with_todos >= 1
    /\ result.files_with_todos < result.files_scanned

\* C5: filter_by_tag is idempotent: filtering the filtered result by the same
\* tag gives a ScanResult equal to it in every field.  The second filter counts
\* the kept files into files_scanned once more.
C5_FilterIdempotent == last.op = "filter_again" => refiltered = filtered

\* C6: the ScanResult returned by filter_by_tag has the files_scanned of its
\* parent, also when files keep matches.  The code adds one per kept file.
C6_FilterInheritsFilesScanned ==
    last.op = "filter_by_tag" => filtered.files_scanned = result.files_scanned

\* C7: for any ScanResult, also one whose counters disagree with its files
\* map, the result of filter_by_tag satisfies the four invariants.
C7_FilteredSatisfiesInvariants ==
    /\ last.op \in {"filter_by_tag", "filter_again"} => FourInvariants(filtered)
    /\ last.op = "filter_again" => FourInvariants(refiltered)

\* the parent's counters are inconsistent and the filter kept something
C7_Witness ==
    /\ last.op = "filter_by_tag"
    /\ ~TotalIsSumOfLengths(result)
    /\ ~FilesWithTodosIsFileCount(result)
    /\ DOMAIN filtered.files # {}

\* C8: filter_by_tag(tag) returns a ScanResult with the parent's root whose
\* files map holds, for each file of the parent, exactly the parent's matches
\* whose tag equals `tag` ignoring ASCII case, in the parent's order; a file
\* left with no match is absent; the parent is not modified.
C8_FilterKeepsMatchingItems ==
    [][last'.op = "filter_by_tag" =>
        /\ result' = result
        /\ filtered'.root = result.root
        /\ DOMAIN filtered'.files \subseteq DOMAIN result.files
        /\ \A p \in DOMAIN result.files :
              LET idx == MatchingIndices(result.files[p], last'.tag)
              IN  IF idx = {}
                  THEN p \notin DOMAIN filtered'.files
                  ELSE /\ p \in DOMAIN filtered'.files
                       /\ IsSubsequenceAt(filtered'.files[p], result.files[p], idx)
    ]_vars

\* one file lost a match and kept one whose tag differs from the filter's tag
\* in case only, and another file is absent from the filtered copy
C8_Witness ==
    /\ last.op = "filter_by_tag"
    /\ \E p \in DOMAIN result.files : p \notin DOMAIN filtered.files
    /\ \E q \in DOMAIN filtered.files :
          /\ Len(filtered.files[q]) < Len(result.files[q])
          /\ filtered.files[q][1].tag # last.tag

\* C9: add_file with an empty match list adds one to files_scanned and leaves
\* files, total_count, files_with_todos, tag_counts and root as they were.
C9_EmptyAddFileOnlyCountsScanned ==
    [][(last'.op = "add_file" /\ last'.items = <<>>) =>
        /\ result'.files_scanned = result.files_scanned + 1
        /\ result'.files = result.files
        /\ result'.total_count = result.total_count
        /\ result'.files_with_todos = result.files_with_todos
        /\ result'.tag_counts = result.tag_counts
        /\ result'.root = result.root
    ]_vars

\* an empty list was added for a path that is not in the non-empty files map
C9_Witness ==
    /\ last.op = "add_file"
    /\ last.items = <<>>
    /\ DOMAIN result.files # {}
    /\ last.path \notin DOMAIN result.files

----------------------------------------------------------------------------
(* Characters as the regex crate and str see them                          *)

\* two characters outside ASCII that Unicode simple case folding puts in the
\* class of an ASCII letter: U+212A KELVIN SIGN (k, K) and U+017F LATIN SMALL
\* LETTER LONG S (s, S)
KELVIN == "U+212A"
LONG_S == "U+017F"

\* the length of a character's UTF-8 encoding
len_utf8(c) == IF c = KELVIN THEN 3 ELSE IF c = LONG_S THEN 2 ELSE 1

\* the representative of a character's class under Unicode simple case
\* folding, which is what a case-insensitive regex compares
SimpleFold(c) ==
    IF c \in LowerLetters THEN UpperOf[c]
    ELSE IF c = KELVIN THEN "K"
    ELSE IF c = LONG_S THEN "S"
    ELSE c

\* char::to_uppercase as str::to_uppercase applies it: the Kelvin sign is
\* already upper case, the long s maps to S
to_uppercase_char(c) ==
    IF c \in LowerLetters THEN UpperOf[c]
    ELSE IF c = LONG_S THEN "S"
    ELSE c

\* str::to_uppercase
to_uppercase(s) == [i \in 1..Len(s) |-> to_uppercase_char(s[i])]

\* the characters of White_Space that the model's texts use: \s of the
\* pattern and str::trim agree on them
WhiteSpace == {" ", "\t", "\n", "\r"}

AsciiWord == UpperLetters \cup LowerLetters \cup Digits \cup {"_"}

\* the class [^a-zA-Z0-9_]: under the case-insensitive flag the class
\* a-zA-Z0-9_ is closed under case folding before it is negated
NotWordClass(c, case_insensitive) ==
    /\ c \notin AsciiWord
    /\ ~(case_insensitive /\ SimpleFold(c) \in AsciiWord)

\* the class [:\s]
SeparatorClass(c) == c = ":" \/ c \in WhiteSpace

\* a literal character of the pattern against a character of the text
LiteralMatches(pc, c, case_insensitive) ==
    pc = c \/ (case_insensitive /\ SimpleFold(pc) = SimpleFold(c))

\* str::trim
RECURSIVE trim_start(_)
trim_start(s) ==
    IF s # <<>> /\ Head(s) \in WhiteSpace THEN trim_start(Tail(s)) ELSE s

RECURSIVE trim_end(_)
trim_end(s) ==
    IF s # <<>> /\ s[Len(s)] \in WhiteSpace THEN trim_end(SubSeq(s, 1, Len(s) - 1)) ELSE s

\* a trim that leaves the whitespace at the end
trim_StartOnly(s) == trim_start(s)

\* str::trim
trim(s) == trim_end(trim_start(s))

----------------------------------------------------------------------------
(* Pattern construction: TodoParser::build_pattern                         *)

\* regex_syntax::is_meta_character
MetaChars == {"\\", ".", "+", "*", "?", "(", ")", "|", "[", "]", "{", "}", "^", "$",
              "#", "&", "-", "~"}

RECURSIVE regex_escape(_)
\* regex::escape: a backslash before every meta character
regex_escape(t) ==
    IF t = <<>> THEN <<>>
    ELSE (IF Head(t) \in MetaChars THEN <<"\\", Head(t)>> ELSE <<Head(t)>>)
         \o regex_escape(Tail(t))

RECURSIVE join(_, _)
\* [String]::join(sep)
join(strs, sep) ==
    IF strs = <<>> THEN <<>>
    ELSE IF Len(strs) = 1 THEN strs[1]
    ELSE strs[1] \o sep \o join(Tail(strs), sep)

\* the outcome of compiling a pattern the model does not read
RegexError == [error |-> "regex"]

RECURSIVE ParseAlternation(_, _, _)
\* The regex parser on the text of the group ({tags}): `|` separates the
\* alternatives, a backslash makes the next character a literal.  `done` are
\* the alternatives read so far, `cur` the literal being read.  The model
\* reads what regex::escape writes; any other use of a meta character is
\* not compiled.
ParseAlternation(src, done, cur) ==
    IF src = <<>> THEN [alts |-> Append(done, cur)]
    ELSE IF Head(src) = "\\"
         THEN IF Len(src) >= 2 /\ src[2] \in MetaChars
              THEN ParseAlternation(SubSeq(src, 3, Len(src)), done, Append(cur, src[2]))
              ELSE RegexError
    ELSE IF Head(src) = "|"
         THEN ParseAlternation(Tail(src), Append(done, cur), <<>>)
    ELSE IF Head(src) \in MetaChars
         THEN RegexError
    ELSE ParseAlternation(Tail(src), done, Append(cur, Head(src)))

\* RegexBuilder::new(pattern).case_insensitive(..).multi_line(true).build():
\* the compiled form of (?:^|[^a-zA-Z0-9_])({tags})(?:\(([^)]+)\))?[:\s]+(.*)$
\* keeps the alternatives of the tag group, in order, and the flag
regex_build(tags_src, case_insensitive) ==
    LET parsed == ParseAlternation(tags_src, <<>>, <<>>)
    IN  IF parsed = RegexError THEN RegexError
        ELSE [alts |-> parsed.alts, case_insensitive |-> case_insensitive]

\* build_pattern without the early return for an empty tag list
build_pattern_NoEmptyCheck(tags, case_sensitive) ==
    regex_build(join([i \in 1..Len(tags) |-> regex_escape(tags[i])], <<"|">>),
                ~case_sensitive)

\* build_pattern that sets the case-insensitive flag whatever case_sensitive is
build_pattern_AlwaysInsensitive(tags, case_sensitive) ==
    IF tags = <<>> THEN None
    ELSE regex_build(join([i \in 1..Len(tags) |-> regex_escape(tags[i])], <<"|">>),
                     TRUE)

\* TodoParser::build_pattern
build_pattern(tags, case_sensitive) ==
    IF tags = <<>> THEN None
    ELSE LET escaped_tags == [i \in 1..Len(tags) |-> regex_escape(tags[i])]
         IN  regex_build(join(escaped_tags, <<"|">>), ~case_sensitive)

\* the panic of `.expect("Failed to build regex pattern")`
Panicked == [panicked |-> TRUE]

\* TodoParser::new
TodoParser_new(tags, case_sensitive) ==
    LET pattern == build_pattern(tags, case_sensitive)
    IN  IF pattern = RegexError THEN Panicked
        ELSE [pattern |-> pattern, tags |-> tags, case_sensitive |-> case_sensitive]

----------------------------------------------------------------------------
(* Matching: Regex::captures on one text                                   *)

\* Offsets count characters from 0; the character at offset k is text[k + 1].

\* ^ under multi_line: at the start of the text or right after a newline
AtLineStart(text, k) == k = 0 \/ text[k] = "\n"

\* the literal `lit` matches the text at offset k
LiteralAt(text, k, lit, case_insensitive) ==
    /\ k + Len(lit) <= Len(text)
    /\ \A i \in 1..Len(lit) : LiteralMatches(lit[i], text[k + i], case_insensitive)

\* the smallest offset >= k at which the text holds character c, or Len(text)
RECURSIVE FindChar(_, _, _)
FindChar(text, k, c) ==
    IF k >= Len(text) \/ text[k + 1] = c THEN k ELSE FindChar(text, k + 1, c)

\* the end of the longest run of [:\s] that starts at offset k
RECURSIVE SeparatorsEnd(_, _)
SeparatorsEnd(text, k) ==
    IF k < Len(text) /\ SeparatorClass(text[k + 1]) THEN SeparatorsEnd(text, k + 1) ELSE k

\* a failed match
NoMatch == [matched |-> FALSE]

\* [:\s]+(.*)$ from offset k, after a tag that starts at `tag_start` and ends
\* at `tag_end`: the separators are taken greedily, then `.` takes every
\* character up to the next newline, where $ holds under multi_line
MatchTail(text, tag_start, tag_end, author, k) ==
    IF k < Len(text) /\ SeparatorClass(text[k + 1])
    THEN LET msg_start == SeparatorsEnd(text, k)
             msg_end == FindChar(text, msg_start, "\n")
         IN  [matched |-> TRUE,
              tag_start |-> tag_start,
              tag_end |-> tag_end,
              author |-> author,
              message |-> SubSeq(text, msg_start + 1, msg_end)]
    ELSE NoMatch

\* the rest of the pattern with ([^)]*) for the author: "()" is a group too
MatchAfterTag_EmptyAuthor(text, tag_start, k) ==
    LET close == FindChar(text, k + 1, ")")
        with_author ==
            IF /\ k < Len(text)
               /\ text[k + 1] = "("
               /\ close < Len(text)
            THEN MatchTail(text, tag_start, k, Some(SubSeq(text, k + 2, close)),
                           close + 1)
            ELSE NoMatch
    IN  IF with_author.matched THEN with_author
        ELSE MatchTail(text, tag_start, k, None, k)

\* (?:\(([^)]+)\))?[:\s]+(.*)$ from offset k, the end of the tag: the group
\* is tried first; [^)]+ runs to the first `)` and must not be empty.  When
\* the group or what follows it fails the group is skipped, and then the
\* character at k has to be a separator.
MatchAfterTag(text, tag_start, k) ==
    LET close == FindChar(text, k + 1, ")")
        with_author ==
            IF /\ k < Len(text)
               /\ text[k + 1] = "("
               /\ close < Len(text)
               /\ close > k + 1
            THEN MatchTail(text, tag_start, k, Some(SubSeq(text, k + 2, close)),
                           close + 1)
            ELSE NoMatch
    IN  IF with_author.matched THEN with_author
        ELSE MatchTail(text, tag_start, k, None, k)

RECURSIVE MatchTagAt(_, _, _, _)
\* ({tags}) and the rest of the pattern at offset k: the alternatives are
\* tried in the order of the tag list, from alternative i on, and the first
\* one after which the rest of the pattern matches is taken
MatchTagAt(pattern, text, k, i) ==
    IF i > Len(pattern.alts) THEN NoMatch
    ELSE LET lit == pattern.alts[i]
             rest == IF LiteralAt(text, k, lit, pattern.case_insensitive)
                     THEN MatchAfterTag(text, k, k + Len(lit))
                     ELSE NoMatch
         IN  IF rest.matched THEN rest ELSE MatchTagAt(pattern, text, k, i + 1)

\* the pattern without its leading (?:^|[^a-zA-Z0-9_]): a tag is looked for
\* at every offset, whatever stands before it
MatchAt_NoBoundary(pattern, text, k) == MatchTagAt(pattern, text, k, 1)

\* the whole pattern with the match starting at offset k: (?:^|[^a-zA-Z0-9_])
\* tries ^ first and then one character that is not a word character
MatchAt(pattern, text, k) ==
    LET at_start == IF AtLineStart(text, k)
                    THEN MatchTagAt(pattern, text, k, 1)
                    ELSE NoMatch
    IN  IF at_start.matched THEN at_start
        ELSE IF k < Len(text) /\ NotWordClass(text[k + 1], pattern.case_insensitive)
             THEN MatchTagAt(pattern, text, k + 1, 1)
             ELSE NoMatch

\* a search that returns the match of the last start offset, not the first
SearchFrom_Rightmost(pattern, text, k) ==
    LET hits == {j \in k..Len(text) : MatchAt(pattern, text, j).matched}
    IN  IF hits = {} THEN NoMatch
        ELSE MatchAt(pattern, text, CHOOSE j \in hits : \A i \in hits : i <= j)

RECURSIVE SearchFrom(_, _, _)
\* the leftmost match: the first start offset, from k on, at which the
\* pattern matches
SearchFrom(pattern, text, k) ==
    IF k > Len(text) THEN NoMatch
    ELSE LET m == MatchAt(pattern, text, k)
         IN  IF m.matched THEN m ELSE SearchFrom(pattern, text, k + 1)

\* a search that lets the order of the tag list decide before the position:
\* the leftmost match of the first alternative that matches anywhere
captures_TagOrderFirst(pattern, text) ==
    LET one(i) == SearchFrom([alts |-> <<pattern.alts[i]>>,
                              case_insensitive |-> pattern.case_insensitive],
                             text, 0)
        hit == {i \in 1..Len(pattern.alts) : one(i).matched}
    IN  IF hit = {} THEN NoMatch
        ELSE one(CHOOSE i \in hit : \A j \in hit : i <= j)

\* Regex::captures
captures(pattern, text) == SearchFrom(pattern, text, 0)

\* an offset that counts characters, not bytes
ByteOffset_CountsChars(text, k) == k

\* Match::start: the byte offset of the character offset k
RECURSIVE ByteOffset(_, _)
ByteOffset(text, k) ==
    IF k = 0 THEN 0 ELSE ByteOffset(text, k - 1) + len_utf8(text[k])

----------------------------------------------------------------------------
(* TodoParser::parse_line and parse_content                                *)

\* the lookup on the tag as it was written, without to_uppercase
Priority_from_tag_AsWritten(tag) ==
    IF tag \in {<<"B", "U", "G">>, FIXME, <<"X", "X", "X">>} THEN "Critical"
    ELSE IF tag \in {<<"H", "A", "C", "K">>, <<"W", "A", "R", "N">>,
                     <<"W", "A", "R", "N", "I", "N", "G">>} THEN "High"
    ELSE IF tag \in {TODO, <<"P", "E", "R", "F">>} THEN "Medium"
    ELSE IF tag \in {NOTE, <<"I", "N", "F", "O">>, <<"I", "D", "E", "A">>} THEN "Low"
    ELSE "Medium"

\* Priority::from_tag
Priority_from_tag(tag) ==
    LET upper == to_uppercase(tag)
    IN  IF upper \in {<<"B", "U", "G">>, FIXME, <<"X", "X", "X">>} THEN "Critical"
        ELSE IF upper \in {<<"H", "A", "C", "K">>, <<"W", "A", "R", "N">>,
                           <<"W", "A", "R", "N", "I", "N", "G">>} THEN "High"
        ELSE IF upper \in {TODO, <<"P", "E", "R", "F">>} THEN "Medium"
        ELSE IF upper \in {NOTE, <<"I", "N", "F", "O">>, <<"I", "D", "E", "A">>} THEN "Low"
        ELSE "Medium"

\* self.tags.iter().find(|t| t.eq_ignore_ascii_case(&tag)).cloned().unwrap_or(tag)
NormalizeTag(tags, tag) ==
    LET found == {i \in 1..Len(tags) : eq_ignore_ascii_case(tags[i], tag)}
    IN  IF found = {} THEN tag
        ELSE tags[CHOOSE i \in found : \A j \in found : i <= j]

\* TodoParser::parse_line
parse_line(self, line, line_number) ==
    IF self.pattern = None THEN None
    ELSE LET caps == captures(self.pattern, line)
         IN  IF ~caps.matched THEN None
             ELSE LET tag == SubSeq(line, caps.tag_start + 1, caps.tag_end)
                      normalized_tag == IF self.case_sensitive THEN tag
                                        ELSE NormalizeTag(self.tags, tag)
                  IN  [tag |-> normalized_tag,
                       message |-> trim(caps.message),
                       line |-> line_number,
                       column |-> ByteOffset(line, caps.tag_start) + 1,
                       line_content |-> line,
                       author |-> caps.author,
                       priority |-> Priority_from_tag(normalized_tag)]

RECURSIVE SplitLines(_, _)
\* str::lines: the text is cut after every "\n"; a piece loses its "\n" and
\* then a "\r" that stood before that "\n"; a last piece without "\n" is kept
\* as it is.  `cur` is the piece being read.
SplitLines(content, cur) ==
    IF content = <<>> THEN (IF cur = <<>> THEN <<>> ELSE <<cur>>)
    ELSE IF Head(content) = "\n"
         THEN <<(IF cur # <<>> /\ cur[Len(cur)] = "\r"
                 THEN SubSeq(cur, 1, Len(cur) - 1)
                 ELSE cur)>> \o SplitLines(Tail(content), <<>>)
    ELSE SplitLines(Tail(content), Append(cur, Head(content)))

lines(content) == SplitLines(content, <<>>)

RECURSIVE ParseLines_ZeroIndexed(_, _, _)
\* the loop with the index of enumerate() as line number, without the + 1
ParseLines_ZeroIndexed(self, ls, idx) ==
    IF idx >= Len(ls) THEN <<>>
    ELSE LET it == parse_line(self, ls[idx + 1], idx)
         IN  (IF it = None THEN <<>> ELSE <<it>>)
                 \o ParseLines_ZeroIndexed(self, ls, idx + 1)

RECURSIVE ParseLines(_, _, _)
\* .enumerate().filter_map(|(idx, line)| self.parse_line(line, idx + 1)).collect()
\* from the line of index idx on
ParseLines(self, ls, idx) ==
    IF idx >= Len(ls) THEN <<>>
    ELSE LET it == parse_line(self, ls[idx + 1], idx + 1)
         IN  (IF it = None THEN <<>> ELSE <<it>>) \o ParseLines(self, ls, idx + 1)

\* TodoParser::parse_content
parse_content(self, content) == ParseLines(self, lines(content), 0)

----------------------------------------------------------------------------
(* The caller of TodoParser: one parser, then parse_line and parse_content *)

MaxTextLen == 4         \* characters of a text over TextChars
MaxAuthorLen == 4       \* characters after "K(" in a text over AuthorChars
MaxContentLen == 6      \* characters of a text over ContentChars
MaxLineNo == 2          \* line numbers passed to parse_line

\* Three families of texts, each long enough for what it exercises: letters
\* of both cases, a letter outside ASCII, separators and line breaks in
\* short texts; a tag with an opening parenthesis and what may follow it,
\* up to a second tag inside the author group ("K(K:):"); and contents of
\* several lines ("K:\n\nK:").
TextChars == {"K", "k", KELVIN, " ", ":", "\n"}
AuthorChars == {"K", "(", ")", ":", " "}
ContentChars == {"K", ":", "\n"}

StringsOver(chars, n) == UNION {[1..m -> chars] : m \in 0..n}

AuthorTexts == {<<"K", "(">> \o t : t \in StringsOver(AuthorChars, MaxAuthorLen)}

Texts ==
    StringsOver(TextChars, MaxTextLen)
        \cup AuthorTexts
        \cup StringsOver(ContentChars, MaxContentLen)

\* no tag; one tag; two tags that differ in case only; a longer tag and two
\* tags of regex metacharacters, one a prefix of the other
TagLists ==
    {<<>>,
     <<<<"K">>>>,
     <<<<"k">>, <<"K">>>>,
     <<<<"K", "k">>, <<"(">>, <<"(", ":">>>>}

InitParser ==
    /\ \E tags \in TagLists, case_sensitive \in BOOLEAN :
          /\ parser = TodoParser_new(tags, case_sensitive)
          /\ last = [op |-> "new", tags |-> tags, case_sensitive |-> case_sensitive]
    /\ item = None
    /\ items = <<>>
    /\ result = ScanResult_new(Root)
    /\ calls = 0
    /\ filtered = None
    /\ refiltered = None
    /\ walked = <<>>
    /\ returned = None
    /\ priority = None
    /\ config = None
    /\ fs = None
    /\ loaded = None

\* a parser was constructed and has not been called yet.  parse_line and
\* parse_content take &self and keep nothing between calls, so one call per
\* behaviour reaches every value they return.
Constructed == parser # Panicked /\ last.op = "new"

\* item = parser.parse_line(line, line_number)
ParseLine ==
    /\ Constructed
    /\ \E line \in Texts, line_number \in 1..MaxLineNo :
          /\ item' = parse_line(parser, line, line_number)
          /\ last' = [op |-> "parse_line", line |-> line, line_number |-> line_number]
    /\ UNCHANGED <<parser, items>>
    /\ UNCHANGED scanVars
    /\ UNCHANGED walkVars
    /\ UNCHANGED configVars

\* items = parser.parse_content(content)
ParseContent ==
    /\ Constructed
    /\ \E content \in Texts :
          /\ items' = parse_content(parser, content)
          /\ last' = [op |-> "parse_content", content |-> content]
    /\ UNCHANGED <<parser, item>>
    /\ UNCHANGED scanVars
    /\ UNCHANGED walkVars
    /\ UNCHANGED configVars

NextParser == ParseLine \/ ParseContent

SpecParser == InitParser /\ [][NextParser]_vars

----------------------------------------------------------------------------
(* Claims about TodoParser                                                 *)

\* C10: a TodoParser built from an empty tag list is inert: construction does
\* not fail, parse_line returns None for every line and line number and
\* parse_content returns an empty list for every content, whatever the
\* case-sensitivity flag.
C10_EmptyTagListIsInert ==
    /\ (last.op = "new" /\ last.tags = <<>>) =>
          (parser # Panicked /\ parser.pattern = None)
    /\ (parser # Panicked /\ parser.tags = <<>>) =>
          (item = None /\ items = <<>>)

\* parse_line was called on a parser without tags with a line that starts
\* with a separator, which the pattern's tail would accept
C10_Witness ==
    /\ parser # Panicked
    /\ parser.tags = <<>>
    /\ last.op = "parse_line"
    /\ last.line # <<>>
    /\ SeparatorClass(last.line[1])

----------------------------------------------------------------------------
(* Scanner::scan: the walk over a directory                                *)

\* Result::Ok and Result::Err
Ok(x) == [ok |-> x]
Err(e) == [err |-> e]

MaxEntries == 3   \* entries the walker yields in one scan

ScanPaths == Paths \cup {"/repo/c.rs"}

\* what std::fs::read_to_string gives for a file: its text, or an error for
\* bytes that are not UTF-8, a file that may not be read or one that is gone
FileContents == {<<"K", ":", "x", "\n", "k", ":">>, <<"x">>}
ReadErrors == {"InvalidData", "PermissionDenied"}
Reads == {Ok(c) : c \in FileContents} \cup {Err(e) : e \in ReadErrors}

\* what the walker yields: an error, a directory, an entry that is neither
\* a directory nor a regular file, or a regular file
WalkEntries ==
    {[kind |-> "error"], [kind |-> "dir", path |-> Root],
     [kind |-> "other", path |-> "/repo/fifo"]}
        \cup {[kind |-> "file", path |-> p, read |-> r] : p \in ScanPaths, r \in Reads}

\* the options of the scanner: the glob patterns, which scan can fail on,
\* and the number of threads
ScanOptionsSet ==
    {[include |-> <<>>, exclude |-> <<>>, threads |-> 0],
     [include |-> <<"*.rs">>, exclude |-> <<"target">>, threads |-> 4],
     [include |-> <<"[">>, exclude |-> <<>>, threads |-> 0],
     [include |-> <<>>, exclude |-> <<"[">>, threads |-> 0]}

\* OverrideBuilder::add accepts the glob: "[" opens a character class that
\* is never closed
GlobIsValid(pattern) == pattern # "["

\* TodoParser::parse_file, given what reading the file gives
parse_file(self, read) ==
    IF "err" \in DOMAIN read THEN read
    ELSE Ok(parse_content(self, read.ok))

\* the loop body of scan that counts an entry that is neither a directory
\* nor a regular file as a scanned file
scan_entry_CountsNonFiles(res, entry, parsed) ==
    IF entry.kind = "error" THEN res
    ELSE IF entry.kind = "dir" THEN res
    ELSE IF entry.kind = "other" THEN [res EXCEPT !.files_scanned = @ + 1]
    ELSE IF "ok" \in DOMAIN parsed THEN add_file(res, entry.path, parsed.ok)
    ELSE [res EXCEPT !.files_scanned = @ + 1]

\* the loop body of scan that leaves an unreadable file out of files_scanned
scan_entry_SkipsUnreadable(res, entry, parsed) ==
    IF entry.kind # "file" THEN res
    ELSE IF "ok" \in DOMAIN parsed THEN add_file(res, entry.path, parsed.ok)
    ELSE res

\* the body of the loop `for entry in builder.build()` for one entry;
\* `parsed` is what self.parse_file(path) returns for a regular file
scan_entry(res, entry, parsed) ==
    IF entry.kind = "error" THEN res
    ELSE IF entry.kind = "dir" THEN res
    ELSE IF entry.kind = "other" THEN res
    ELSE IF "ok" \in DOMAIN parsed THEN add_file(res, entry.path, parsed.ok)
    ELSE [res EXCEPT !.files_scanned = @ + 1]

\* Scanner::new(parser, options) and a root that resolves or does not
InitScan ==
    /\ parser = TodoParser_new(<<<<"K">>>>, FALSE)
    /\ \E options \in ScanOptionsSet, root_resolves \in BOOLEAN :
          last = [op |-> "scanner_new", options |-> options,
                  root_resolves |-> root_resolves]
    /\ result = ScanResult_new(Root)
    /\ walked = <<>>
    /\ returned = None
    /\ priority = None
    /\ config = None
    /\ fs = None
    /\ loaded = None
    /\ calls = 0
    /\ filtered = None
    /\ refiltered = None
    /\ item = None
    /\ items = <<>>

\* scan with the include and exclude patterns left unchecked
scan_start_IgnoresBadPatterns(options, root_resolves) ==
    IF ~root_resolves THEN Err("Failed to resolve path")
    ELSE Ok(ScanResult_new(Root))

\* scan up to the loop: the root is resolved, the result created and the
\* overrides built from the include patterns and then the exclude patterns;
\* each `?` returns the error, Ok carries the result the loop starts with
scan_start(options, root_resolves) ==
    IF ~root_resolves THEN Err("Failed to resolve path")
    ELSE IF \E i \in 1..Len(options.include) : ~GlobIsValid(options.include[i])
    THEN Err("Invalid include pattern")
    ELSE IF \E i \in 1..Len(options.exclude) : ~GlobIsValid(options.exclude[i])
    THEN Err("Invalid exclude pattern")
    ELSE Ok(ScanResult_new(Root))

\* scan is called; it returns at once on an error of its first part
ScanStart ==
    /\ last.op = "scanner_new"
    /\ \E started \in {scan_start(last.options, last.root_resolves)} :
          IF "err" \in DOMAIN started
          THEN /\ returned' = started
               /\ last' = [last EXCEPT !.op = "scan_return"]
               /\ UNCHANGED result
          ELSE /\ returned' = None
               /\ last' = [last EXCEPT !.op = "walk"]
               /\ result' = started.ok
    /\ UNCHANGED <<walked, calls, filtered, refiltered>>
    /\ UNCHANGED parserVars
    /\ UNCHANGED configVars

\* one turn of the loop: the walker yields an entry
WalkEntry ==
    /\ last.op = "walk"
    /\ Len(walked) < MaxEntries
    /\ \E entry \in WalkEntries :
          \E parsed \in {IF entry.kind = "file"
                         THEN parse_file(parser, entry.read)
                         ELSE None} :
              /\ walked' = Append(walked, entry)
              /\ result' = scan_entry(result, entry, parsed)
    /\ UNCHANGED <<last, returned, calls, filtered, refiltered>>
    /\ UNCHANGED parserVars
    /\ UNCHANGED configVars

\* the walker is exhausted: Ok(result)
ScanReturn ==
    /\ last.op = "walk"
    /\ returned' = Ok(result)
    /\ last' = [last EXCEPT !.op = "scan_return"]
    /\ UNCHANGED <<result, walked, calls, filtered, refiltered>>
    /\ UNCHANGED parserVars
    /\ UNCHANGED configVars

NextScan == ScanStart \/ WalkEntry \/ ScanReturn

SpecScan == InitScan /\ [][NextScan]_vars

----------------------------------------------------------------------------
(* What a line holds, said without the matcher                             *)

\* parse_line was the call, on last.line
ParsedLine == last.op = "parse_line"

\* the character offsets of a text that stand at the byte offset column - 1
TagOffsets(line, column) ==
    {k \in 0..Len(line) : ByteOffset(line, k) = column - 1}

\* tag t stands at offset k of the line, compared as the parser compares
Occurs(line, k, t) == LiteralAt(line, k, t, ~parser.case_sensitive)

\* the occurrence of t at offset k is part of a longer identifier
Embedded(line, k, t) ==
    \/ k > 0 /\ line[k] \in AsciiWord
    \/ k + Len(t) < Len(line) /\ line[k + Len(t) + 1] \in AsciiWord

\* the line holds a configured tag, and only inside longer identifiers
OnlyEmbedded(line) ==
    LET occ == {ki \in (0..Len(line)) \X (1..Len(parser.tags)) :
                    Occurs(line, ki[1], parser.tags[ki[2]])}
    IN  /\ occ # {}
        /\ \A ki \in occ : Embedded(line, ki[1], parser.tags[ki[2]])

\* C11: the tag of every match of parse_line starts at the beginning of the
\* line or right after a character that is not an ASCII letter, digit or
\* underscore, and is followed at once by the "(" of an author group, a colon
\* or whitespace; a line whose tag occurrences are all embedded in longer
\* identifiers yields None.
C11_EmbeddedTagNeverMatches ==
    ParsedLine =>
        /\ item # None =>
              \E k \in TagOffsets(last.line, item.column) :
                  LET e == k + Len(item.tag)
                  IN  /\ k = 0 \/ last.line[k] \notin AsciiWord
                      /\ e < Len(last.line)
                      /\ last.line[e + 1] \in {"(", ":"} \cup WhiteSpace
                      /\ last.line[e + 1] = "(" => item.author # None
        /\ OnlyEmbedded(last.line) => item = None

\* a line with the tag inside an identifier and before a colon ("KK:" for
\* the tag "K") was parsed, and gave None
C11_Witness ==
    /\ ParsedLine
    /\ OnlyEmbedded(last.line)
    /\ \E k \in 1..(Len(last.line) - 2) :
          Occurs(last.line, k, <<"K">>) /\ last.line[k + 2] = ":"
    /\ item = None

\* the end of the run of separators that starts at offset e
SeparatorRunEnd(line, e) ==
    CHOOSE n \in e..Len(line) :
        /\ \A j \in (e + 1)..n : SeparatorClass(line[j])
        /\ n = Len(line) \/ ~SeparatorClass(line[n + 1])

\* the offset of the next "\n" from offset n on, or the end of the text
LineEnd(line, n) ==
    CHOOSE m \in n..Len(line) :
        /\ \A j \in (n + 1)..m : line[j] # "\n"
        /\ m = Len(line) \/ line[m + 1] = "\n"

\* the text that trails the separators starting at offset e, up to the end
\* of the line and without the whitespace at its end
Trailing(line, e) ==
    LET n == SeparatorRunEnd(line, e)
        m == LineEnd(line, n)
        stop == CHOOSE j \in n..m :
                    /\ j = n \/ line[j] \notin WhiteSpace
                    /\ \A i \in (j + 1)..m : line[i] \in WhiteSpace
    IN  SubSeq(line, n + 1, stop)

\* the tag of the list that the text tag stands for: itself when the parser
\* is case sensitive, else the first one equal to it ignoring ASCII case
Configured(tag) ==
    IF parser.case_sensitive THEN tag
    ELSE LET same == {i \in 1..Len(parser.tags) :
                          eq_ignore_ascii_case(parser.tags[i], tag)}
         IN  parser.tags[CHOOSE i \in same : \A j \in same : i <= j]

\* offset k of the line holds "<tag>:" for the configured tag t
TagColonAt(line, k, t) ==
    /\ Occurs(line, k, t)
    /\ k + Len(t) < Len(line)
    /\ line[k + Len(t) + 1] = ":"

IsAscii(text) == \A j \in 1..Len(text) : len_utf8(text[j]) = 1

\* C12 as stated, on ASCII lines: every line that contains "<tag>: message"
\* for a configured tag gives a match for that tag, with the trimmed text
\* after the tag and its separator as message.
C12_EveryTagColonLineMatches ==
    ParsedLine /\ parser.tags # <<>> /\ IsAscii(last.line) =>
        \A k \in 0..Len(last.line), i \in 1..Len(parser.tags) :
            TagColonAt(last.line, k, parser.tags[i]) =>
                /\ item # None
                /\ eq_ignore_ascii_case(item.tag, parser.tags[i])
                /\ item.message = Trailing(last.line, k + Len(parser.tags[i]))

\* the tags are ASCII and none holds a colon, whitespace or "("
PlainTags ==
    \A i \in 1..Len(parser.tags) :
        /\ IsAscii(parser.tags[i])
        /\ \A j \in 1..Len(parser.tags[i]) :
              parser.tags[i][j] \notin {":", "("} \cup WhiteSpace

\* no configured tag stands at an offset before k
LeftmostOccurrence(line, k) ==
    \A j \in 0..(k - 1), i \in 1..Len(parser.tags) :
        ~Occurs(line, j, parser.tags[i])

\* C12, amended: for ASCII tags without colon, whitespace or "(" and an ASCII
\* line, when the leftmost occurrence of a configured tag stands at the start
\* of the line or after a character that is not a letter, digit or
\* underscore and is followed at once by a colon, parse_line returns a match
\* at that occurrence: its column is the offset plus one, its tag is the
\* occurrence in the configured casing, it has no author, and its message
\* is the text after the run of colons and whitespace up to the end of the
\* line, trimmed.
C12_LeftmostTagColonMatches ==
    ParsedLine /\ PlainTags /\ IsAscii(last.line) =>
        \A k \in 0..Len(last.line), i \in 1..Len(parser.tags) :
            LET t == parser.tags[i]
            IN  /\ TagColonAt(last.line, k, t)
                /\ LeftmostOccurrence(last.line, k)
                /\ k = 0 \/ last.line[k] \notin AsciiWord
                => /\ item # None
                   /\ item.column = k + 1
                   /\ item.tag = Configured(SubSeq(last.line, k + 1, k + Len(t)))
                   /\ item.author = None
                   /\ item.message = Trailing(last.line, k + Len(t))
                   /\ item.line = last.line_number
                   /\ item.line_content = last.line

\* a line with a prefix, "<tag>:" and a message was parsed into a match
C12_Witness ==
    /\ ParsedLine /\ PlainTags /\ IsAscii(last.line)
    /\ \E k \in 1..Len(last.line) :
          /\ TagColonAt(last.line, k, <<"K">>)
          /\ LeftmostOccurrence(last.line, k)
          /\ last.line[k] \notin AsciiWord
    /\ item # None
    /\ item.message # <<>>

\* the text of the line that the tag of the item was matched on
MatchedText(line, it) ==
    LET k == CHOOSE j \in TagOffsets(line, it.column) : TRUE
    IN  SubSeq(line, k + 1, k + Len(it.tag))

\* C13: with a case-insensitive parser the tag of every match is an element
\* of the configured tag list, the first one equal to the matched text
\* ignoring case; the fallback that keeps the matched text is never taken.
C13_InsensitiveTagIsConfigured ==
    ParsedLine /\ ~parser.case_sensitive /\ item # None =>
        \E i \in 1..Len(parser.tags) :
            /\ item.tag = parser.tags[i]
            /\ eq_ignore_ascii_case(parser.tags[i], MatchedText(last.line, item))
            /\ \A j \in 1..(i - 1) :
                  ~eq_ignore_ascii_case(parser.tags[j], MatchedText(last.line, item))

\* the text of the line at offset k is t, character for character
ExactAt(line, k, t) ==
    /\ k + Len(t) <= Len(line)
    /\ SubSeq(line, k + 1, k + Len(t)) = t

\* C14: a case-sensitive parser matches only where a tag stands with exactly
\* its configured casing: the tag of a match is the matched text unchanged
\* and an element of the tag list, and a line that holds no tag in its
\* configured casing yields None.
C14_SensitiveMatchesExactCasing ==
    ParsedLine /\ parser.case_sensitive =>
        /\ item # None =>
              /\ \E i \in 1..Len(parser.tags) : item.tag = parser.tags[i]
              /\ \E k \in TagOffsets(last.line, item.column) :
                    ExactAt(last.line, k, item.tag)
        /\ (\A k \in 0..Len(last.line), i \in 1..Len(parser.tags) :
                ~ExactAt(last.line, k, parser.tags[i]))
           => item = None

\* the case-sensitive parser for "K" was given a line where "k" stands like
\* a tag, before a colon and after no word character, and gave None
C14_Witness ==
    /\ ParsedLine /\ parser.case_sensitive /\ parser.tags = <<<<"K">>>>
    /\ \E k \in 0..(Len(last.line) - 2) :
          /\ last.line[k + 1] = "k" /\ last.line[k + 2] = ":"
          /\ k = 0 \/ last.line[k] \notin AsciiWord
    /\ \A k \in 1..Len(last.line) : last.line[k] # "K"
    /\ item = None

\* the closing parenthesis c of an author group that opens right after
\* offset e: "(", one or more characters other than ")", then ")"
AuthorGroup(line, e, c) ==
    /\ e < Len(line)
    /\ line[e + 1] = "("
    /\ c \in (e + 3)..Len(line)
    /\ line[c] = ")"
    /\ \A j \in (e + 2)..(c - 1) : line[j] # ")"

\* a separator stands right after offset e
SeparatorAfter(line, e) == e < Len(line) /\ SeparatorClass(line[e + 1])

\* the occurrence of tag t at offset k satisfies the pattern on its own: it
\* starts the line or follows a character outside the word class, and a
\* separator follows it, at once or after an author group
Satisfies(line, k, t) ==
    /\ Occurs(line, k, t)
    /\ k = 0 \/ NotWordClass(line[k], ~parser.case_sensitive)
    /\ \/ SeparatorAfter(line, k + Len(t))
       \/ \E c \in 1..Len(line) :
             AuthorGroup(line, k + Len(t), c) /\ SeparatorAfter(line, c)

\* the tags of the list with an occurrence that satisfies the pattern
\* somewhere in the line, by index
SatisfiedTags(line) ==
    {i \in 1..Len(parser.tags) :
        \E k \in 0..Len(line) : Satisfies(line, k, parser.tags[i])}

\* the tags of the list with an occurrence that satisfies the pattern at
\* offset k, by index
SatisfiedAt(line, k) ==
    {i \in 1..Len(parser.tags) : Satisfies(line, k, parser.tags[i])}

Least(S) == CHOOSE i \in S : \A j \in S : i <= j

\* C15 as stated, on ASCII lines: when occurrences of two distinct configured
\* tags each satisfy the pattern, the match is for the tag that comes first
\* in the tag list, wherever the occurrences stand.
C15_ListOrderDecides ==
    ParsedLine /\ IsAscii(last.line) =>
        LET sat == SatisfiedTags(last.line)
        IN  (\E i, j \in sat : parser.tags[i] # parser.tags[j]) =>
                /\ item # None
                /\ item.tag = Configured(parser.tags[Least(sat)])

\* C15, amended: the match is for the leftmost occurrence that satisfies the
\* pattern; the order of the tag list decides only between tags that
\* satisfy the pattern at that same offset, where the first of them is
\* matched.  A line without such an occurrence yields None.
C15_LeftmostThenListOrder ==
    ParsedLine /\ parser.tags # <<>> =>
        IF SatisfiedTags(last.line) = {} THEN item = None
        ELSE /\ item # None
             /\ \E k \in TagOffsets(last.line, item.column) :
                   /\ \A j \in 0..(k - 1) : SatisfiedAt(last.line, j) = {}
                   /\ SatisfiedAt(last.line, k) # {}
                   /\ LET t == parser.tags[Least(SatisfiedAt(last.line, k))]
                      IN  /\ Len(item.tag) = Len(t)
                          /\ parser.case_sensitive => item.tag = t

\* two distinct tags satisfy the pattern in the parsed line, the one that
\* comes later in the list further left, and the match is for that one
C15_Witness ==
    /\ ParsedLine /\ parser.case_sensitive
    /\ parser.tags = <<<<"k">>, <<"K">>>>
    /\ \E j, k \in 0..Len(last.line) :
          /\ j < k
          /\ Satisfies(last.line, j, <<"K">>)
          /\ Satisfies(last.line, k, <<"k">>)
          /\ \A m \in 0..(j - 1) : SatisfiedAt(last.line, m) = {}
    /\ item # None
    /\ item.tag = <<"K">>

\* the offsets of the line where some configured tag satisfies the pattern
SatisfiedOffsets(line) ==
    {k \in 0..Len(line) : SatisfiedAt(line, k) # {}}

SingleLine(line) == \A j \in 1..Len(line) : line[j] # "\n"

\* the offset where the tag of the item ends in its line
TagEnd(line, it) ==
    (CHOOSE k \in TagOffsets(line, it.column) : TRUE) + Len(it.tag)

\* the offset where the message of the item starts in its line: after the
\* tag, the author group if there is one, and the run of separators
MessageStart(line, it) ==
    SeparatorRunEnd(line, IF it.author = None THEN TagEnd(line, it)
                          ELSE TagEnd(line, it) + Len(it.author.some) + 2)

\* offset k lies inside the author group of the item
InAuthor(line, it, k) ==
    /\ it.author # None
    /\ k > TagEnd(line, it)
    /\ k <= TagEnd(line, it) + Len(it.author.some)

\* C16 as stated, for a line without line break: when two or more
\* occurrences satisfy the pattern, the one match points at the leftmost of
\* them and the later ones stand only inside its message.
C16_LaterOccurrencesInMessage ==
    ParsedLine /\ SingleLine(last.line)
        /\ Cardinality(SatisfiedOffsets(last.line)) >= 2 =>
            /\ item # None
            /\ TagOffsets(last.line, item.column) =
                   {Least(SatisfiedOffsets(last.line))}
            /\ \A k \in SatisfiedOffsets(last.line) :
                  \/ k = Least(SatisfiedOffsets(last.line))
                  \/ k >= MessageStart(last.line, item)

\* every tag is made of ASCII letters, digits and underscores
WordTags ==
    \A i \in 1..Len(parser.tags) :
        \A j \in 1..Len(parser.tags[i]) : parser.tags[i][j] \in AsciiWord

\* C16, amended: when two or more occurrences satisfy the pattern in a line
\* without line break, the one match points at the leftmost of them; the
\* later ones are to its right and, for tags made of ASCII letters, digits
\* and underscores, each stands inside its message or inside its author
\* group.
C16_LeftmostOnly ==
    ParsedLine /\ SingleLine(last.line)
        /\ Cardinality(SatisfiedOffsets(last.line)) >= 2 =>
            /\ item # None
            /\ TagOffsets(last.line, item.column) =
                   {Least(SatisfiedOffsets(last.line))}
            /\ WordTags =>
                  \A k \in SatisfiedOffsets(last.line) :
                      \/ k = Least(SatisfiedOffsets(last.line))
                      \/ k >= MessageStart(last.line, item)
                      \/ InAuthor(last.line, item, k)

\* a line with a second satisfying occurrence inside the author group of the
\* first ("K(K:):") was parsed
C16_Witness ==
    /\ ParsedLine /\ SingleLine(last.line) /\ WordTags
    /\ item # None
    /\ item.column = 1
    /\ \E k \in SatisfiedOffsets(last.line) : InAuthor(last.line, item, k)

\* parse_content was the call, on last.content
ParsedContent == last.op = "parse_content"

\* the positions of the line breaks of a content
Breaks(content) == {p \in 1..Len(content) : content[p] = "\n"}

\* the position of the j-th line break
Break(content, j) ==
    CHOOSE p \in Breaks(content) :
        Cardinality({q \in Breaks(content) : q <= p}) = j

\* the number of lines: one per line break, and one more for text after
\* the last line break
LineCount(content) ==
    Cardinality(Breaks(content))
        + (IF content # <<>> /\ content[Len(content)] # "\n" THEN 1 ELSE 0)

\* the j-th line, without its line break (and the "\r" before it)
Line(content, j) ==
    LET first == IF j = 1 THEN 1 ELSE Break(content, j - 1) + 1
        ended == j <= Cardinality(Breaks(content))
        stop == IF ended THEN Break(content, j) - 1 ELSE Len(content)
    IN  IF ended /\ stop >= first /\ content[stop] = "\r"
        THEN SubSeq(content, first, stop - 1)
        ELSE SubSeq(content, first, stop)

\* the lines of the content on which parse_line returns a match
MatchingLines(content) ==
    {j \in 1..LineCount(content) : parse_line(parser, Line(content, j), j) # None}

\* C17: parse_content returns the matches in line order with line numbers
\* counted from 1: they increase strictly, each lies in 1..number of lines,
\* every item is what parse_line returns for its line and line number,
\* every matching line has its item, and a content without matching line
\* gives the empty list.
C17_ContentIsLineByLine ==
    ParsedContent =>
        LET content == last.content
        IN  /\ \A k \in 1..Len(items) :
                  /\ items[k].line \in 1..LineCount(content)
                  /\ items[k] = parse_line(parser, Line(content, items[k].line),
                                           items[k].line)
            /\ \A k \in 1..(Len(items) - 1) : items[k].line < items[k + 1].line
            /\ {items[k].line : k \in 1..Len(items)} = MatchingLines(content)
            /\ MatchingLines(content) = {} => items = <<>>

\* a content of three lines was parsed, the first and the third matching:
\* two items, of lines 1 and 3
C17_Witness ==
    /\ ParsedContent
    /\ LineCount(last.content) = 3
    /\ Len(items) = 2
    /\ items[1].line = 1
    /\ items[2].line = 3

\* the number of bytes of the first k characters of a text in UTF-8
Utf8Len(text, k) ==
    Cardinality({jb \in (1..k) \X (1..3) : jb[2] <= len_utf8(text[jb[1]])})

\* C18: the column of a match is one plus the byte offset at which the tag
\* text starts, not that of the delimiter before it: the line holds the
\* matched tag text in the bytes from column - 1 on, column is at least 1,
\* line is the line number passed in and line_content is the line passed in.
C18_ColumnIsTagByteOffset ==
    ParsedLine /\ item # None =>
        /\ item.column >= 1
        /\ item.line = last.line_number
        /\ item.line_content = last.line
        /\ \E k \in 0..Len(last.line) :
              /\ Utf8Len(last.line, k) = item.column - 1
              /\ Occurs(last.line, k, item.tag)
              /\ SatisfiedAt(last.line, k) # {}
              /\ Utf8Len(last.line, k + Len(item.tag)) - Utf8Len(last.line, k)
                    = Utf8Len(item.tag, Len(item.tag))

\* a match whose tag stands after a character of three bytes and a space:
\* column 5 for the character offset 2
C18_Witness ==
    /\ ParsedLine
    /\ Len(last.line) >= 3
    /\ last.line[1] = KELVIN
    /\ last.line[2] = " "
    /\ item # None
    /\ item.column = 5
    /\ last.line_number = 2

\* "// TODO(john): Implement this"
JohnLine ==
    <<"/", "/", " ", "T", "O", "D", "O", "(", "j", "o", "h", "n", ")", ":", " ",
      "I", "m", "p", "l", "e", "m", "e", "n", "t", " ", "t", "h", "i", "s">>

\* what the case-insensitive parser for TODO and FIXME makes of it
JohnItem == parse_line(TodoParser_new(<<TODO, FIXME>>, FALSE), JohnLine, 1)

\* C19: the author of a match is the text inside the parentheses that follow
\* the tag at once, and None when no parenthesis follows the tag; an author
\* is never empty and holds no ")", so a tag followed by "()" gives no match
\* at that occurrence; "// TODO(john): Implement this" gives the tag TODO,
\* the author john and the message "Implement this".
C19_AuthorIsParenthesizedText ==
    /\ JohnItem # None
    /\ JohnItem.tag = TODO
    /\ JohnItem.author = Some(<<"j", "o", "h", "n">>)
    /\ JohnItem.message = SubSeq(JohnLine, 16, 29)
    /\ ParsedLine /\ item # None =>
          LET line == last.line
              e == TagEnd(line, item)
          IN  /\ e < Len(line)
              /\ item.author = None <=> line[e + 1] # "("
              /\ item.author # None =>
                    LET a == item.author.some
                    IN  /\ a # <<>>
                        /\ \A j \in 1..Len(a) : a[j] # ")"
                        /\ e + Len(a) + 2 <= Len(line)
                        /\ SubSeq(line, e + 2, e + Len(a) + 1) = a
                        /\ line[e + Len(a) + 2] = ")"
              /\ ~(e + 2 <= Len(line) /\ line[e + 1] = "(" /\ line[e + 2] = ")")

\* a match with an author, and after it a message
C19_Witness ==
    /\ ParsedLine
    /\ item # None
    /\ item.author = Some(<<"K">>)
    /\ item.message # <<>>

\* the entry is a regular file that could be read / could not be read
Readable(entry) == entry.kind = "file" /\ "ok" \in DOMAIN entry.read
Unreadable(entry) == entry.kind = "file" /\ "err" \in DOMAIN entry.read

\* the number of entries of a sequence that satisfy Test
Count(seq, Test(_)) == Cardinality({i \in 1..Len(seq) : Test(seq[i])})

RECURSIVE Replay(_, _)
\* the result of add_file for the readable files of the first n entries, in
\* the order of the walk
Replay(seq, n) ==
    IF n = 0 THEN ScanResult_new(Root)
    ELSE IF Readable(seq[n])
         THEN add_file(Replay(seq, n - 1), seq[n].path,
                       parse_content(parser, seq[n].read.ok))
         ELSE Replay(seq, n - 1)

\* C20: a regular file that cannot be read is counted in files_scanned once
\* and changes nothing else: the result is the one of the same walk without
\* the unreadable files, with files_scanned raised by their number; the walk
\* goes on after such a file and scan returns Ok with that result, so three
\* files of which one is unreadable give files_scanned 3 and files_with_todos
\* at most 2.
C20_UnreadableFileOnlyCounted ==
    /\ last.op \in {"walk", "scan_return"} =>
          /\ result = [Replay(walked, Len(walked)) EXCEPT
                           !.files_scanned = @ + Count(walked, Unreadable)]
          /\ result.files_scanned =
                Count(walked, Readable) + Count(walked, Unreadable)
          /\ result.files_with_todos <= Count(walked, Readable)
    /\ walked # <<>> /\ last.op = "scan_return" => returned = Ok(result)

\* scan returned after a walk of three regular files, the second of them
\* unreadable and the others with matches
C20_Witness ==
    /\ last.op = "scan_return"
    /\ Len(walked) = 3
    /\ Readable(walked[1]) /\ Unreadable(walked[2]) /\ Readable(walked[3])
    /\ walked[1].path # walked[3].path
    /\ returned = Ok(result)
    /\ result.files_scanned = 3
    /\ result.files_with_todos = 2

\* scan has returned
ScanReturned == last.op = "scan_return"

\* some include or exclude pattern of the options is not a valid glob
BadPattern(options) ==
    \E pattern \in {options.include[i] : i \in 1..Len(options.include)}
                    \cup {options.exclude[i] : i \in 1..Len(options.exclude)} :
        ~GlobIsValid(pattern)

\* C21 as stated: scan returns an error only when the root path cannot be
\* resolved; with a root that resolves it returns Ok with a ScanResult,
\* whatever the options and whatever fails during the walk.
C21_ErrOnlyOnUnresolvedRoot ==
    ScanReturned =>
        IF last.root_resolves THEN returned = Ok(result)
        ELSE "err" \in DOMAIN returned

\* C21, amended: scan returns an error exactly when the root path cannot be
\* resolved or an include or exclude pattern of the options is not a valid
\* glob, and then before any entry is walked; otherwise it returns Ok with
\* the result, whatever the walk met: unreadable files and entries that
\* cannot be accessed contribute no match.
C21_ErrOnlyBeforeWalk ==
    ScanReturned =>
        IF last.root_resolves /\ ~BadPattern(last.options)
        THEN returned = Ok(result)
        ELSE /\ "err" \in DOMAIN returned
             /\ walked = <<>>
             /\ returned.err = "Failed to resolve path" <=> ~last.root_resolves

\* scan returned Ok after a walk that met an entry that cannot be accessed
\* and a file that cannot be read
C21_Witness ==
    /\ ScanReturned
    /\ \E i, j \in 1..Len(walked) :
          walked[i].kind = "error" /\ Unreadable(walked[j])
    /\ returned = Ok(result)
    /\ result.total_count = 0

\* the entry is a regular file
RegularFile(entry) == entry.kind = "file"

\* the walker yielded no path twice
EachPathOnce ==
    \A i, j \in 1..Len(walked) :
        RegularFile(walked[i]) /\ RegularFile(walked[j]) /\ i # j =>
            walked[i].path # walked[j].path

\* the matches of the readable files of the walk, by path
MatchesByPath ==
    LET withMatches == {i \in 1..Len(walked) :
                           /\ Readable(walked[i])
                           /\ parse_content(parser, walked[i].read.ok) # <<>>}
    IN  [p \in {walked[i].path : i \in withMatches} |->
            LET i == CHOOSE k \in withMatches : walked[k].path = p
            IN  parse_content(parser, walked[i].read.ok)]

\* C26: the ScanResult that a successful scan returns satisfies the four
\* ScanResult invariants when the walker yielded each path at most once, and
\* its files_scanned is the number of regular files the walker yielded,
\* readable or not; the result is made from the entries of the walk alone,
\* one after the other, so it is the same for every value of
\* ScanOptions.threads.
C26_ScanResultIsConsistent ==
    ScanReturned /\ "ok" \in DOMAIN returned =>
        /\ returned.ok.files_scanned = Count(walked, RegularFile)
        /\ EachPathOnce =>
              /\ FourInvariants(returned.ok)
              /\ returned.ok.files = MatchesByPath
              /\ returned.ok.root = Root

\* a scan with threads = 4 returned after a walk that yielded a directory, a
\* file with two matches and an unreadable file
C26_Witness ==
    /\ ScanReturned
    /\ "ok" \in DOMAIN returned
    /\ last.options.threads = 4
    /\ Len(walked) = 3
    /\ walked[1].kind = "dir"
    /\ Readable(walked[2]) /\ Unreadable(walked[3])
    /\ walked[2].path # walked[3].path
    /\ returned.ok.files_scanned = 2
    /\ returned.ok.total_count = 2
    /\ returned.ok.files_with_todos = 1

----------------------------------------------------------------------------
(* The tag definitions of the core crate and the priority of a match       *)

BUG == <<"B", "U", "G">>
HACK == <<"H", "A", "C", "K">>
XXX == <<"X", "X", "X">>
WARN == <<"W", "A", "R", "N">>
PERF == <<"P", "E", "R", "F">>

\* DEFAULT_TAGS: the name and the priority of each TagDefinition
DEFAULT_TAGS ==
    <<[name |-> TODO, priority |-> "Medium"],
      [name |-> FIXME, priority |-> "Critical"],
      [name |-> BUG, priority |-> "Critical"],
      [name |-> NOTE, priority |-> "Low"],
      [name |-> HACK, priority |-> "High"],
      [name |-> XXX, priority |-> "Critical"],
      [name |-> WARN, priority |-> "High"],
      [name |-> PERF, priority |-> "Medium"]>>

\* default_tag_names()
default_tag_names == [i \in 1..Len(DEFAULT_TAGS) |-> DEFAULT_TAGS[i].name]

\* u8::to_ascii_lowercase on one character: only A-Z change
to_ascii_lowercase(c) ==
    IF c \in UpperLetters THEN CHOOSE l \in LowerLetters : UpperOf[l] = c ELSE c

\* the names that from_tag knows, in upper case, and two it does not know
PriorityNames ==
    {DEFAULT_TAGS[i].name : i \in 1..Len(DEFAULT_TAGS)}
        \cup {<<"W", "A", "R", "N", "I", "N", "G">>, <<"I", "N", "F", "O">>,
              <<"I", "D", "E", "A">>, <<"D", "O", "N", "E">>, <<"K">>}

\* each name in upper case, in lower case and capitalized, and HACK written
\* with the Kelvin sign
PriorityTags ==
    PriorityNames
        \cup {[i \in 1..Len(n) |-> to_ascii_lowercase(n[i])] : n \in PriorityNames}
        \cup {[i \in 1..Len(n) |-> IF i = 1 THEN n[i] ELSE to_ascii_lowercase(n[i])] :
                 n \in PriorityNames}
        \cup {<<"H", "A", "C", KELVIN>>}

\* the tag lists of the parsers: the default names, and a list a user wrote
\* in lower case
PriorityTagLists ==
    {default_tag_names, <<<<"f", "i", "x", "m", "e">>, <<"n", "o", "t", "e">>>>}

\* what follows the tag on a line
TagSuffixes == {<<":">>, <<"(", "a", ")", ":", " ", "x">>}

InitPriority ==
    /\ \E tags \in PriorityTagLists, case_sensitive \in BOOLEAN :
          /\ parser = TodoParser_new(tags, case_sensitive)
          /\ last = [op |-> "new", tags |-> tags, case_sensitive |-> case_sensitive]
    /\ item = None
    /\ items = <<>>
    /\ result = ScanResult_new(Root)
    /\ calls = 0
    /\ filtered = None
    /\ refiltered = None
    /\ walked = <<>>
    /\ returned = None
    /\ priority = None
    /\ config = None
    /\ fs = None
    /\ loaded = None

\* priority = Priority::from_tag(tag)
FromTag ==
    /\ Constructed
    /\ \E tag \in PriorityTags :
          /\ priority' = Priority_from_tag(tag)
          /\ last' = [op |-> "from_tag", tag |-> tag]
    /\ UNCHANGED <<config, fs, loaded>>
    /\ UNCHANGED parserVars
    /\ UNCHANGED scanVars
    /\ UNCHANGED walkVars

\* item = parser.parse_line(line, 1) on a line that starts with a tag
ParseTagged ==
    /\ Constructed
    /\ \E tag \in PriorityTags, suffix \in TagSuffixes :
          /\ item' = parse_line(parser, tag \o suffix, 1)
          /\ last' = [op |-> "parse_line", line |-> tag \o suffix, line_number |-> 1,
                      written |-> tag]
    /\ UNCHANGED <<parser, items>>
    /\ UNCHANGED scanVars
    /\ UNCHANGED walkVars
    /\ UNCHANGED configVars

NextPriority == FromTag \/ ParseTagged

SpecPriority == InitPriority /\ [][NextPriority]_vars

----------------------------------------------------------------------------
(* Claims about the priority of a match                                    *)

\* the priority that DEFAULT_TAGS declares for a tag that is one of its
\* names in some ASCII casing; Medium for a tag that from_tag does not know
DeclaredPriorities(tag) ==
    {DEFAULT_TAGS[i].priority :
        i \in {j \in 1..Len(DEFAULT_TAGS) : eq_ignore_ascii_case(DEFAULT_TAGS[j].name, tag)}}
        \cup (IF \E n \in PriorityNames \ {<<"D", "O", "N", "E">>, <<"K">>} :
                    eq_ignore_ascii_case(n, tag)
              THEN {}
              ELSE {"Medium"})

\* the number of default tags of a priority
CountPriority(p) ==
    Cardinality({i \in 1..Len(DEFAULT_TAGS) : DEFAULT_TAGS[i].priority = p})

\* C22: the priority of every match is looked up from its normalized tag
\* without regard to case, a tag that is not known gets Medium; for each of
\* the 8 default tags Priority::from_tag(name) is the priority DEFAULT_TAGS
\* declares, in every casing of the name; DEFAULT_TAGS has 3 Critical, 2
\* High, 2 Medium and 1 Low tag.
C22_PriorityIsDeclaredPriority ==
    /\ last.op = "from_tag" =>
          \A p \in DeclaredPriorities(last.tag) : priority = p
    /\ last.op = "parse_line" /\ item # None =>
          \A p \in DeclaredPriorities(item.tag) : item.priority = p
    /\ Len(DEFAULT_TAGS) = 8
    /\ CountPriority("Critical") = 3
    /\ CountPriority("High") = 2
    /\ CountPriority("Medium") = 2
    /\ CountPriority("Low") = 1

\* a line "fixme(a): x" was parsed by a case-insensitive parser of the default
\* tags: the match has the tag FIXME and the priority Critical
C22_Witness ==
    /\ last.op = "parse_line"
    /\ last.written = <<"f", "i", "x", "m", "e">>
    /\ ~parser.case_sensitive
    /\ parser.tags = default_tag_names
    /\ item # None
    /\ item.tag = FIXME
    /\ item.priority = "Critical"
    /\ item.author # None

----------------------------------------------------------------------------
(* Config and CliOptions: merging the command line into a configuration    *)

\* Config::new of the cli crate
Config_new ==
    [tags |-> default_tag_names,
     include |-> <<>>,
     exclude |-> <<>>,
     json |-> FALSE,
     flat |-> FALSE,
     no_color |-> FALSE,
     custom_pattern |-> None,
     case_sensitive |-> TRUE,
     require_colon |-> TRUE]

\* an Option<Vec<String>> that holds a list with at least one element
SomeNonEmpty(option) == IF option = None THEN FALSE ELSE option.some # <<>>

\* the merge with the CLI exclude patterns put in the place of the list
merge_with_cli_ReplacesExclude(self, cli) ==
    [self EXCEPT
        !.tags = IF SomeNonEmpty(cli.tags) THEN cli.tags.some ELSE @,
        !.include = IF SomeNonEmpty(cli.include) THEN cli.include.some ELSE @,
        !.exclude = IF SomeNonEmpty(cli.exclude) THEN cli.exclude.some ELSE @,
        !.json = IF cli.json THEN TRUE ELSE @,
        !.flat = IF cli.flat THEN TRUE ELSE @,
        !.no_color = IF cli.no_color THEN TRUE ELSE @,
        !.case_sensitive = IF cli.ignore_case THEN FALSE
                           ELSE IF cli.case_sensitive # None THEN cli.case_sensitive.some
                           ELSE @,
        !.require_colon = IF cli.no_require_colon THEN FALSE ELSE @]

\* Config::merge_with_cli of the cli crate.  The block of ignore_case runs
\* after the block of case_sensitive, so its assignment is the one that
\* stays when both apply.
merge_with_cli(self, cli) ==
    [self EXCEPT
        !.tags = IF SomeNonEmpty(cli.tags) THEN cli.tags.some ELSE @,
        !.include = IF SomeNonEmpty(cli.include) THEN cli.include.some ELSE @,
        !.exclude = IF SomeNonEmpty(cli.exclude) THEN @ \o cli.exclude.some ELSE @,
        !.json = IF cli.json THEN TRUE ELSE @,
        !.flat = IF cli.flat THEN TRUE ELSE @,
        !.no_color = IF cli.no_color THEN TRUE ELSE @,
        !.case_sensitive = IF cli.ignore_case THEN FALSE
                           ELSE IF cli.case_sensitive # None THEN cli.case_sensitive.some
                           ELSE @,
        !.require_colon = IF cli.no_require_colon THEN FALSE ELSE @]

\* Config::merge_with_cli of the first crate, which takes the six options as
\* arguments and has no case or colon options
merge_with_cli_args(self, tags, include, exclude, json, flat, no_color) ==
    [self EXCEPT
        !.tags = IF SomeNonEmpty(tags) THEN tags.some ELSE @,
        !.include = IF SomeNonEmpty(include) THEN include.some ELSE @,
        !.exclude = IF SomeNonEmpty(exclude) THEN @ \o exclude.some ELSE @,
        !.json = IF json THEN TRUE ELSE @,
        !.flat = IF flat THEN TRUE ELSE @,
        !.no_color = IF no_color THEN TRUE ELSE @]

\* the values of (json, flat, no_color) in a configuration and on the
\* command line
ConfigFlags == {<<FALSE, FALSE, FALSE>>, <<TRUE, FALSE, TRUE>>}
CliFlags == {<<FALSE, FALSE, FALSE>>, <<TRUE, FALSE, FALSE>>, <<FALSE, TRUE, TRUE>>}

\* configurations of the cli crate: Config::new and configurations a file
\* may hold
Configs ==
    {[Config_new EXCEPT !.tags = tags, !.include = include, !.exclude = exclude,
                        !.json = flags[1], !.flat = flags[2], !.no_color = flags[3],
                        !.custom_pattern = custom_pattern,
                        !.case_sensitive = case_sensitive,
                        !.require_colon = require_colon] :
        tags \in {default_tag_names, <<TODO>>},
        include \in {<<>>, <<"*.rs">>},
        exclude \in {<<>>, <<"existing/**">>},
        flags \in ConfigFlags,
        custom_pattern \in {None, Some("TODO|FIXME")},
        case_sensitive \in BOOLEAN,
        require_colon \in BOOLEAN}

\* configurations of the first crate, whose Config has no require_colon
ArgConfigs ==
    {[f \in (DOMAIN c) \ {"require_colon"} |-> c[f]] : c \in Configs}

\* the six options that both crates merge
MergedOptions ==
    {[tags |-> tags, include |-> include, exclude |-> exclude,
      json |-> flags[1], flat |-> flags[2], no_color |-> flags[3]] :
        tags \in {None, Some(<<>>), Some(<<FIXME>>)},
        include \in {None, Some(<<>>), Some(<<"*.md">>)},
        exclude \in {None, Some(<<>>), Some(<<"new/**">>)},
        flags \in CliFlags}

\* CliOptions
CliOptionsSet ==
    {[tags |-> o.tags, include |-> o.include, exclude |-> o.exclude,
      json |-> o.json, flat |-> o.flat, no_color |-> o.no_color,
      case_sensitive |-> case_sensitive,
      ignore_case |-> ignore_case,
      no_require_colon |-> no_require_colon] :
        o \in MergedOptions,
        case_sensitive \in {None, Some(TRUE), Some(FALSE)},
        ignore_case \in BOOLEAN,
        no_require_colon \in BOOLEAN}

InitMerge ==
    /\ config \in Configs \cup ArgConfigs
    /\ last = NoOp
    /\ parser = TodoParser_new(<<>>, FALSE)
    /\ item = None
    /\ items = <<>>
    /\ result = ScanResult_new(Root)
    /\ calls = 0
    /\ filtered = None
    /\ refiltered = None
    /\ walked = <<>>
    /\ returned = None
    /\ priority = None
    /\ fs = None
    /\ loaded = None

\* config.merge_with_cli(cli) in the cli crate; merge_with_cli is called
\* once, on the configuration that was loaded or created
MergeWithCli ==
    /\ last = NoOp
    /\ "require_colon" \in DOMAIN config
    /\ \E cli \in CliOptionsSet :
          /\ config' = merge_with_cli(config, cli)
          /\ last' = [op |-> "merge_with_cli", before |-> config, cli |-> cli]
    /\ UNCHANGED <<priority, fs, loaded>>
    /\ UNCHANGED parserVars
    /\ UNCHANGED scanVars
    /\ UNCHANGED walkVars

\* config.merge_with_cli(tags, include, exclude, json, flat, no_color) in
\* the first crate
MergeWithArgs ==
    /\ last = NoOp
    /\ "require_colon" \notin DOMAIN config
    /\ \E o \in MergedOptions :
          /\ config' = merge_with_cli_args(config, o.tags, o.include, o.exclude,
                                           o.json, o.flat, o.no_color)
          /\ last' = [op |-> "merge_with_cli", before |-> config, cli |-> o]
    /\ UNCHANGED <<priority, fs, loaded>>
    /\ UNCHANGED parserVars
    /\ UNCHANGED scanVars
    /\ UNCHANGED walkVars

NextMerge == MergeWithCli \/ MergeWithArgs

SpecMerge == InitMerge /\ [][NextMerge]_vars

----------------------------------------------------------------------------
(* Claims about Config::merge_with_cli                                     *)

Merged == last # NoOp /\ last.op = "merge_with_cli"

\* the list an Option<Vec<String>> of the command line contributes
Given(option) == IF option = None THEN <<>> ELSE option.some

\* C23: after merge_with_cli, tags and include are the CLI value when it is
\* present and not empty and are unchanged otherwise; exclude is the former
\* exclude list followed by the CLI exclude patterns; each of json, flat and
\* no_color is the OR of its former value and its CLI flag; custom_pattern is
\* unchanged.
C23_MergeKeepsConfigValues ==
    Merged =>
        /\ config.tags = IF Given(last.cli.tags) # <<>> THEN Given(last.cli.tags)
                         ELSE last.before.tags
        /\ config.include = IF Given(last.cli.include) # <<>> THEN Given(last.cli.include)
                            ELSE last.before.include
        /\ config.exclude = last.before.exclude \o Given(last.cli.exclude)
        /\ config.json = (last.before.json \/ last.cli.json)
        /\ config.flat = (last.before.flat \/ last.cli.flat)
        /\ config.no_color = (last.before.no_color \/ last.cli.no_color)
        /\ config.custom_pattern = last.before.custom_pattern

\* a configuration with an exclude pattern, json set and a custom pattern was
\* merged with CLI options that give one exclude pattern, empty tags and no
\* json flag: both exclude patterns are there, in order, tags, json and the
\* custom pattern are as before
C23_Witness ==
    /\ Merged
    /\ "require_colon" \in DOMAIN config
    /\ last.before.exclude = <<"existing/**">>
    /\ last.cli.exclude = Some(<<"new/**">>)
    /\ config.exclude = <<"existing/**", "new/**">>
    /\ last.cli.tags = Some(<<>>)
    /\ config.tags = default_tag_names
    /\ last.before.json /\ ~last.cli.json /\ config.json
    /\ config.custom_pattern = Some("TODO|FIXME")

\* C25: when cli.case_sensitive is Some(v), config.case_sensitive is v after
\* the merge, whatever the other CLI options (ignore_case among them) and
\* the former value are; when it is None and ignore_case is false,
\* case_sensitive is unchanged.
C25_ExplicitFlagTakesPrecedence ==
    Merged /\ "case_sensitive" \in DOMAIN last.cli =>
        /\ last.cli.case_sensitive # None =>
              config.case_sensitive = last.cli.case_sensitive.some
        /\ last.cli.case_sensitive = None /\ ~last.cli.ignore_case =>
              config.case_sensitive = last.before.case_sensitive

----------------------------------------------------------------------------
(* Config::load: the search for a configuration file                       *)

MaxDepth == 2   \* depth of the deepest directory below the filesystem root
MaxFiles == 2   \* configuration files on disk

\* A directory on the chain is named by its depth: 0 is the filesystem root,
\* the parent of the directory of depth d > 0 is the one of depth d - 1.
Dirs == 0..MaxDepth

\* Path::parent
parent(dir) == IF dir = 0 THEN None ELSE Some(dir - 1)

\* local_configs, in the order load tries them
LocalNames == <<".todorc", ".todorc.json", ".todorc.yaml", ".todorc.yml">>

\* global_configs under config_dir/todo-tree, in the order load tries them
GlobalNames == <<"config.json", "config.yaml", "config.yml">>

\* start_path.join(name)
LocalPath(dir, name) == [under |-> "chain", depth |-> dir, name |-> name]

\* config_dir.join("todo-tree").join(name)
GlobalPath(name) == [under |-> "config_dir", depth |-> 0, name |-> name]

ConfigPaths ==
    {LocalPath(dir, LocalNames[i]) : dir \in Dirs, i \in 1..Len(LocalNames)}
        \cup {GlobalPath(GlobalNames[i]) : i \in 1..Len(GlobalNames)}

\* The disk: the configuration files that exist, each with content that
\* parses as a Config or not, and whether dirs::config_dir() is Some.
FileSystems ==
    {[files |-> files, config_dir |-> config_dir] :
        files \in UNION {[present -> BOOLEAN] :
                            present \in {ps \in SUBSET ConfigPaths :
                                            Cardinality(ps) <= MaxFiles}},
        config_dir \in BOOLEAN}

\* the Config written in the file at a path that parses: the files are told
\* apart by the tag they configure
ConfigOf(path) ==
    [Config_new EXCEPT !.tags = <<<<path.under, path.depth, path.name>>>>]

\* Path::exists
exists(disk, path) == path \in DOMAIN disk.files

\* Config::load_from_file: read and parse, an error of either is returned
load_from_file(disk, path) ==
    IF disk.files[path] THEN Ok(ConfigOf(path)) ELSE Err("Failed to parse config")

\* Result::map(Some)
map_Some(r) == IF "ok" \in DOMAIN r THEN Ok(Some(r.ok)) ELSE r

\* the first path of `paths`, from index i on, that exists; None without one
RECURSIVE FirstExisting(_, _, _)
FirstExisting(disk, paths, i) ==
    IF i > Len(paths) THEN None
    ELSE IF exists(disk, paths[i]) THEN Some(paths[i])
    ELSE FirstExisting(disk, paths, i + 1)

\* the last part of load: the global configuration, else Ok(None)
load_global(disk) ==
    LET found == IF disk.config_dir
                 THEN FirstExisting(disk, [i \in 1..Len(GlobalNames) |->
                                              GlobalPath(GlobalNames[i])], 1)
                 ELSE None
    IN  IF found # None THEN map_Some(load_from_file(disk, found.some))
        ELSE Ok(None)

\* `let Ok(Some(config)) = Self::load(parent)` matches
IsOkSome(r) == IF "ok" \in DOMAIN r THEN r.ok # None ELSE FALSE

RECURSIVE load(_, _)
\* Config::load
load(disk, start_path) ==
    LET found == FirstExisting(disk, [i \in 1..Len(LocalNames) |->
                                         LocalPath(start_path, LocalNames[i])], 1)
        up == IF parent(start_path) # None
              THEN load(disk, parent(start_path).some)
              ELSE Err("no parent")
    IN  IF found # None THEN map_Some(load_from_file(disk, found.some))
        ELSE IF parent(start_path) # None /\ IsOkSome(up) THEN up
        ELSE load_global(disk)

InitLoad ==
    /\ fs \in FileSystems
    /\ \E start_path \in Dirs : last = [op |-> "new", start_path |-> start_path]
    /\ loaded = None
    /\ config = None
    /\ priority = None
    /\ parser = TodoParser_new(<<>>, FALSE)
    /\ item = None
    /\ items = <<>>
    /\ result = ScanResult_new(Root)
    /\ calls = 0
    /\ filtered = None
    /\ refiltered = None
    /\ walked = <<>>
    /\ returned = None

\* loaded = Config::load(start_path)
Load ==
    /\ last.op = "new"
    /\ loaded' = load(fs, last.start_path)
    /\ last' = [last EXCEPT !.op = "load"]
    /\ UNCHANGED <<priority, config, fs>>
    /\ UNCHANGED parserVars
    /\ UNCHANGED scanVars
    /\ UNCHANGED walkVars

NextLoad == Load

SpecLoad == InitLoad /\ [][NextLoad]_vars

----------------------------------------------------------------------------
(* Claims about Config::load                                               *)

\* the directories of the chain start_path, parent, ... that hold a
\* configuration file
DirsWithConfig ==
    {dir \in 0..last.start_path :
        \E i \in 1..Len(LocalNames) : exists(fs, LocalPath(dir, LocalNames[i]))}

\* the global configuration files that load can see
GlobalConfigs ==
    {i \in 1..Len(GlobalNames) : fs.config_dir /\ exists(fs, GlobalPath(GlobalNames[i]))}

\* the file the search is to settle on: in the nearest directory of the
\* chain that holds one, the first in the order of LocalNames; without
\* such a directory, the first global file
ChosenFile ==
    IF DirsWithConfig # {}
    THEN LET dir == CHOOSE d \in DirsWithConfig : \A e \in DirsWithConfig : e <= d
             first == CHOOSE i \in 1..Len(LocalNames) :
                         /\ exists(fs, LocalPath(dir, LocalNames[i]))
                         /\ \A j \in 1..(i - 1) : ~exists(fs, LocalPath(dir, LocalNames[j]))
         IN  LocalPath(dir, LocalNames[first])
    ELSE GlobalPath(GlobalNames[CHOOSE i \in GlobalConfigs : \A j \in GlobalConfigs : i <= j])

\* C24: Config::load returns the configuration of the first file, in the
\* order .todorc, .todorc.json, .todorc.yaml, .todorc.yml, of the nearest
\* directory on the chain from start_path up to the filesystem root that
\* holds a configuration file (when that file parses); it returns a global
\* configuration only when no directory on the chain holds a configuration
\* file; it returns Ok(None) only when there is no configuration file in
\* any directory of the chain nor in the user's config directory.
C24_NearestConfigIsLoaded ==
    last.op = "load" =>
        /\ DirsWithConfig # {} /\ fs.files[ChosenFile] =>
              loaded = Ok(Some(ConfigOf(ChosenFile)))
        /\ \A i \in 1..Len(GlobalNames) :
              loaded = Ok(Some(ConfigOf(GlobalPath(GlobalNames[i])))) =>
                  DirsWithConfig = {}
        /\ loaded = Ok(None) => DirsWithConfig = {} /\ GlobalConfigs = {}

====
